---- MODULE Spec2Model ----
(***************************************************************************)
(* Model of the MetropoleAI question-answering service:                    *)
(*   main.py               module start-up and the POST /ask handler       *)
(*   model/index.py        HuggingFaceIndex.query and load_index           *)
(*   model/rewrite_utils.py  rewrite_answer                                *)
(*   model/prompts.py      get_user_prompt_multi                           *)
(*   utils/logging_utils.py  init_db and log_interaction                   *)
(*                                                                         *)
(* Scores and the threshold are hundredths (0.3 is 30).  A text is a       *)
(* sequence of fragments, so that an f-string is the concatenation of its  *)
(* parts and the empty text <<>> is Python's falsy "".  Python values that *)
(* the handler subscripts carry their type in the field t.                 *)
(***************************************************************************)
EXTENDS Integers, Sequences, FiniteSets, TLC

VARIABLES
    pc,                    \* "boot" before main.py is imported, then "serving"
    index_dir,             \* what load_index finds on disk
    SIMILARITY_THRESHOLD,  \* model/index.py: read once from the environment
    HF_API_TOKEN,          \* model/rewrite_utils.py: read once from the environment
    index,                 \* main.py: the module global index
    db_columns,            \* columns of table chat_logs; {} when there is no table
    chat_logs,             \* rows of table chat_logs, in insertion order
    now,                   \* the clock read by datetime.now()
    handled,               \* how many /ask requests have been handled
    last,                  \* the latest /ask request: its inputs and its outcome
    adapter,               \* a HuggingFaceIndex object used directly
    query_out,             \* the calls made on adapter and what they returned
    sink_op,               \* the latest direct call of init_db or log_interaction
    rewrite_out,           \* the latest direct call of rewrite_answer
    inflight,              \* the /ask requests the event loop holds
    crawler,               \* metropole_crawler: the state of one crawl
    validate_out,          \* the latest call of validate_crawled_data
    chunk_out              \* the latest call of chunk_sentences

vars == <<pc, index_dir, SIMILARITY_THRESHOLD, HF_API_TOKEN, index,
          db_columns, chat_logs, now, handled, last, adapter, query_out, sink_op,
          rewrite_out, inflight, crawler, validate_out, chunk_out>>

service_vars == <<pc, index_dir, SIMILARITY_THRESHOLD, HF_API_TOKEN, index,
                  db_columns, chat_logs, now, handled, last>>

adapter_vars == <<adapter, query_out>>

\* the variables of the functions that are exercised on their own
unit_vars == <<rewrite_out, inflight, crawler, validate_out, chunk_out>>

\* ------------------------------------------------------------------ bounds

MaxRequests == 2
MaxNodes == 2
MaxQueries == 3
MaxSinkOps == 4

\* --------------------------------------------------------------- constants

TOP_K == 3
DEFAULT_SIMILARITY_THRESHOLD == 30

\* the values SIMILARITY_THRESHOLD is configured to
Thresholds == {DEFAULT_SIMILARITY_THRESHOLD, 85}
Questions == {"q1", "q2"}

\* ----------------------------------------------------------- Python values

None == [t |-> "None"]
PyStr(s) == [t |-> "str", v |-> s]
PyFloat(x) == [t |-> "float", v |-> x]
PyList(xs) == [t |-> "list", v |-> xs]
PyDict(d) == [t |-> "dict", v |-> d]

Value(x) == [raised |-> FALSE, exc |-> "", val |-> x]
Raise(e) == [raised |-> TRUE, exc |-> e, val |-> None]

\* bool(x): None, "", [] and {} are falsy; an object without __bool__/__len__ is truthy
Truthy(x) ==
    CASE x.t = "None" -> FALSE
      [] x.t = "str" -> x.v # <<>>
      [] x.t = "list" -> x.v # <<>>
      [] OTHER -> TRUE

\* obj[key] for a string key
GetItem(obj, key) ==
    CASE obj.t = "dict" ->
            IF key \in DOMAIN obj.v THEN Value(obj.v[key]) ELSE Raise("KeyError")
      [] OTHER -> Raise("TypeError")

\* ------------------------------------------------------- model/index.py

Passage(text, score) == [text |-> text, score |-> score]

\* the nodes the vector engine can return: each score is above, at or below
\* one of the thresholds, and two nodes have the same score
Nodes == { Passage(<<"p1">>, 85), Passage(<<"p1">>, 30), Passage(<<"p2">>, 30) }

RECURSIVE SeqsUpTo(_, _)
SeqsUpTo(S, n) ==
    IF n = 0 THEN {<<>>}
    ELSE LET shorter == SeqsUpTo(S, n - 1)
         IN  shorter \cup {Append(s, x) : s \in {r \in shorter : Len(r) = n - 1}, x \in S}

Min(a, b) == IF a <= b THEN a ELSE b

NodeSeqs == SeqsUpTo(Nodes, Min(TOP_K, MaxNodes))

\* what query_engine.query can hand back as response.source_nodes with
\* similarity_top_k = top_k
SourceNodes(top_k) == {s \in NodeSeqs : Len(s) <= top_k}

\* a variant of InsertDesc that puts x before the elements of equal score
InsertDesc_before_ties(x, s) ==
    LET k == Cardinality({i \in DOMAIN s : s[i].score > x.score})
    IN  SubSeq(s, 1, k) \o <<x>> \o SubSeq(s, k + 1, Len(s))

\* list.sort(key=score, reverse=True): stable, highest score first
InsertDesc(x, s) ==
    LET k == Cardinality({i \in DOMAIN s : s[i].score >= x.score})
    IN  SubSeq(s, 1, k) \o <<x>> \o SubSeq(s, k + 1, Len(s))

RECURSIVE SortDesc(_)
SortDesc(s) ==
    IF s = <<>> THEN <<>>
    ELSE InsertDesc(s[Len(s)], SortDesc(SubSeq(s, 1, Len(s) - 1)))

NotIndexedPassage == Passage(<<"No documents indexed yet.">>, 0)
NoRelevantPassage == Passage(<<"No relevant information found.">>, 0)

\* a variant of query that returns no passage on an index never built
query_empty_when_unbuilt(self, query_text, top_k, source_nodes) ==
    IF self.index = "None" THEN <<>>
    ELSE IF source_nodes = <<>> THEN <<NoRelevantPassage>>
    ELSE SortDesc([i \in DOMAIN source_nodes |->
                     Passage(source_nodes[i].text, source_nodes[i].score)])

\* HuggingFaceIndex.query: self is the wrapper, source_nodes the engine's answer
query(self, query_text, top_k, source_nodes) ==
    IF self.index = "None" THEN <<NotIndexedPassage>>
    ELSE IF source_nodes = <<>> THEN <<NoRelevantPassage>>
    ELSE SortDesc([i \in DOMAIN source_nodes |->
                     Passage(source_nodes[i].text, source_nodes[i].score)])

\* HuggingFaceIndex.__init__
NewHuggingFaceIndex == [t |-> "HuggingFaceIndex", index |-> "None"]

\* HuggingFaceIndex.add_texts: the wrapper after the call
add_texts(self, texts) == [self EXCEPT !.index = "VectorStoreIndex"]

IndexDirs == {"missing", "no_model_txt", "no_collection", "unreadable", "ok"}

\* a variant of load_index that hands back an empty wrapper instead of None
load_index_unbuilt_wrapper(dir) ==
    IF dir = "ok"
    THEN [NewHuggingFaceIndex EXCEPT !.index = "VectorStoreIndex"]
    ELSE NewHuggingFaceIndex

\* load_index: None unless the directory, model.txt and the collection are
\* there and readable
load_index(dir) ==
    IF dir = "ok"
    THEN [NewHuggingFaceIndex EXCEPT !.index = "VectorStoreIndex"]
    ELSE None

\* ----------------------------------------------------- model/prompts.py

\* get_user_prompt_multi: sorted(passages, key=lambda x: x["score"], reverse=True)
\* iterates passages and subscripts every element with "score"; the prompt is
\* returned only when that succeeds
get_user_prompt_multi(passages, question) ==
    CASE passages.t = "list" -> Value(PyList(SortDesc(passages.v)))
      [] passages.t = "str" ->
            IF passages.v = <<>> THEN Value(PyList(<<>>)) ELSE Raise("TypeError")
      [] OTHER -> Raise("TypeError")

\* ------------------------------------------------ model/rewrite_utils.py

ANSWER_MARKER == "Answer:"

\* one HTTP attempt: an exception (HTTPStatusError, RequestError,
\* TimeoutException, Exception), or a 200 answer carrying generated_text
Failed(e) == [err |-> e, text |-> <<>>]
Generated(text) == [err |-> "", text |-> text]

RECURSIVE Strip(_)
Strip(text) ==
    IF text = <<>> THEN <<>>
    ELSE IF Head(text) = " " THEN Strip(Tail(text))
    ELSE IF text[Len(text)] = " " THEN Strip(SubSeq(text, 1, Len(text) - 1))
    ELSE text

\* generated_text.split("Answer:"): the parts between the markers
RECURSIVE Split(_)
Split(text) ==
    LET marks == {i \in DOMAIN text : text[i] = ANSWER_MARKER}
    IN  IF marks = {} THEN <<text>>
        ELSE LET m == CHOOSE i \in marks : \A j \in marks : i <= j
             IN  <<SubSeq(text, 1, m - 1)>> \o Split(SubSeq(text, m + 1, Len(text)))

\* lines 74-86: the text a successful attempt returns
clean_answer(generated_text) ==
    LET answer_parts == Split(generated_text)
    IN  IF Len(answer_parts) > 1 THEN Strip(answer_parts[2]) ELSE generated_text

\* a variant of rewrite_loop that gives up after the first attempt
rewrite_loop_no_retry(attempts, attempt) ==
    LET a == attempts[attempt]
        generated_text == Strip(a.text)
    IN  IF a.err = "" /\ generated_text # <<>>
        THEN [val |-> PyStr(clean_answer(generated_text)), http_calls |-> attempt]
        ELSE [val |-> None, http_calls |-> attempt]

\* lines 51-104: the loop over range(2); attempts[i] is what attempt i meets
RECURSIVE rewrite_loop(_, _)
rewrite_loop(attempts, attempt) ==
    IF attempt > 2 THEN [val |-> None, http_calls |-> 2]
    ELSE LET a == attempts[attempt]
             generated_text == Strip(a.text)
         IN  IF a.err = "" /\ generated_text # <<>>
             THEN [val |-> PyStr(clean_answer(generated_text)), http_calls |-> attempt]
             ELSE rewrite_loop(attempts, attempt + 1)

rewrite_answer(token, question, passages, attempts) ==
    IF ~token THEN [raised |-> FALSE, exc |-> "", val |-> None, http_calls |-> 0]
    ELSE LET user_prompt == get_user_prompt_multi(passages, question)
         IN  IF user_prompt.raised
             THEN [raised |-> TRUE, exc |-> user_prompt.exc, val |-> None, http_calls |-> 0]
             ELSE LET r == rewrite_loop(attempts, 1)
                  IN  [raised |-> FALSE, exc |-> "", val |-> r.val,
                       http_calls |-> r.http_calls]

\* ------------------------------------------------ utils/logging_utils.py

BaseColumns == {"id", "timestamp", "question", "response"}
OptionalColumns == {"score", "response_type", "raw_passages", "filtered_out"}
AllColumns == BaseColumns \cup OptionalColumns

\* the order of the four ALTER TABLE statements, lines 53-63
OptionalOrder == <<"score", "response_type", "raw_passages", "filtered_out">>

\* a stored value; NULL is SQL NULL
Cell(v) == <<v>>
NULL == <<>>

\* a variant of init_db that adds one missing column per call
init_db_one_column_per_call(columns, db_ok) ==
    IF ~db_ok THEN columns
    ELSE IF columns = {} THEN AllColumns
    ELSE LET missing == {i \in DOMAIN OptionalOrder : OptionalOrder[i] \notin columns}
         IN  IF missing = {} THEN columns
             ELSE columns \cup {OptionalOrder[CHOOSE i \in missing :
                                                \A j \in missing : i <= j]}

\* init_db: the columns after the call.  db_ok is whether connect, the
\* statements and commit go through; any exception is logged and swallowed
init_db(columns, db_ok) ==
    IF ~db_ok THEN columns
    ELSE IF columns = {} THEN AllColumns
    ELSE columns \cup OptionalColumns

\* a variant of add_columns that rebuilds the table empty
add_columns_recreate(rows, columns) ==
    IF rows # <<>> /\ DOMAIN rows[1] # columns THEN <<>> ELSE rows

\* ALTER TABLE chat_logs ADD COLUMN: every row gets NULL in a new column
add_columns(rows, columns) ==
    [i \in DOMAIN rows |->
        [c \in columns |-> IF c \in DOMAIN rows[i] THEN rows[i][c] ELSE NULL]]

\* the arguments of one log_interaction call
LogCall(question, response, score, response_type) ==
    [question |-> question, response |-> response, score |-> score,
     response_type |-> response_type]

\* where the database fails during one log_interaction call
SinkFaults == {"none", "connect", "insert", "commit", "close"}

\* a variant of NextId that counts the rows
NextId_by_count(rows) == Len(rows) + 1

\* id INTEGER PRIMARY KEY AUTOINCREMENT: one more than the largest id
NextId(rows) ==
    IF rows = <<>> THEN 1
    ELSE 1 + (CHOOSE m \in {rows[i].id : i \in DOMAIN rows} :
                  \A i \in DOMAIN rows : rows[i].id <= m)

\* a variant of NewRow that binds question and response the other way round
NewRow_swapped(rows, clock, call) ==
    [id |-> NextId(rows), timestamp |-> Cell(clock),
     question |-> Cell(call.response), response |-> Cell(call.question),
     score |-> Cell(call.score), response_type |-> Cell(call.response_type),
     raw_passages |-> NULL, filtered_out |-> NULL]

\* lines 95-98: the row of the one INSERT; raw_passages and filtered_out are
\* the defaults (None) of the parameters no caller passes
NewRow(rows, clock, call) ==
    [id |-> NextId(rows), timestamp |-> Cell(clock),
     question |-> Cell(call.question), response |-> Cell(call.response),
     score |-> Cell(call.score), response_type |-> Cell(call.response_type),
     raw_passages |-> NULL, filtered_out |-> NULL]

\* a variant of try_log that inserts the question and commits, then fills in
\* the other columns
try_log_two_statements(rows, columns, clock, call, fault) ==
    LET row == NewRow(rows, clock, call)
        partial == [row EXCEPT !.response = NULL, !.score = NULL,
                               !.response_type = NULL]
    IN  IF fault = "connect" \/ fault = "insert" \/ ~(AllColumns \subseteq columns)
        THEN [rows |-> rows, exc |-> "OperationalError"]
        ELSE IF fault = "commit"
        THEN [rows |-> Append(rows, partial), exc |-> "OperationalError"]
        ELSE IF fault = "close"
        THEN [rows |-> Append(rows, row), exc |-> "ProgrammingError"]
        ELSE [rows |-> Append(rows, row), exc |-> ""]

\* lines 91-101, the body of the try: connect, one INSERT that names every
\* column but id, commit, close.  The INSERT is pending until commit; when a
\* step raises, the connection is dropped with what is pending
try_log(rows, columns, clock, call, fault) ==
    LET pending == <<NewRow(rows, clock, call)>>
    IN  IF fault = "connect" THEN [rows |-> rows, exc |-> "OperationalError"]
        ELSE IF fault = "insert" \/ ~(AllColumns \subseteq columns)
        THEN [rows |-> rows, exc |-> "OperationalError"]
        ELSE IF fault = "commit" THEN [rows |-> rows, exc |-> "OperationalError"]
        ELSE IF fault = "close"
        THEN [rows |-> rows \o pending, exc |-> "ProgrammingError"]
        ELSE [rows |-> rows \o pending, exc |-> ""]

\* a variant of log_interaction without the except clause
log_interaction_uncaught(rows, columns, clock, call, fault) ==
    LET attempt == try_log(rows, columns, clock, call, fault)
    IN  [rows |-> attempt.rows, raised |-> attempt.exc # "", exc |-> attempt.exc]

\* log_interaction: the rows after the call and what reaches the caller;
\* lines 102-103 log any exception and swallow it
log_interaction(rows, columns, clock, call, fault) ==
    LET attempt == try_log(rows, columns, clock, call, fault)
    IN  [rows |-> attempt.rows, raised |-> FALSE, exc |-> ""]

\* ---------------------------------------------------------------- main.py

NoIndexAnswer == <<"No documents indexed yet.">>
NoInformationAnswer == <<"No information found for this question.">>

\* line 56: the f-string around request.question
fallback_message(question) ==
    <<"No strong match found in index. Query: '", question,
      "'. Consider checking content coverage or reindexing.">>

\* the handler returned body (HTTP 200) after the log_interaction calls in log_calls
Returned(body, log_calls, searches, rewrite_calls) ==
    [status |-> 200, exc |-> "", body |-> body, log_calls |-> log_calls,
     searches |-> searches, rewrite_calls |-> rewrite_calls]

\* the handler let exception exc escape: the framework answers HTTP 500
Raised(exc, searches, rewrite_calls) ==
    [status |-> 500, exc |-> exc, body |-> [detail |-> exc], log_calls |-> <<>>,
     searches |-> searches, rewrite_calls |-> rewrite_calls]

\* a variant of no_index that calls rewrite_answer on the canned message
no_index_tries_rewrite(question) ==
    Returned([answer |-> NoIndexAnswer],
             <<LogCall(question, NoIndexAnswer, 0, "error")>>, 0, 1)

\* lines 26-29: the answer when no index is loaded
no_index(question) ==
    Returned([answer |-> NoIndexAnswer],
             <<LogCall(question, NoIndexAnswer, 0, "error")>>, 0, 0)

\* lines 24-58: the whole handler; source_nodes is what the vector engine finds
\* for the question and attempts what the rewrite API does when it is called
ask(question, source_nodes, attempts) ==
    IF ~Truthy(index) THEN no_index(question)
    ELSE
    LET query_result == PyList(query(index, question, TOP_K, source_nodes))
        text_item == GetItem(query_result, "text")
        score_item == GetItem(query_result, "score")
        raw_passage == text_item.val
        score == score_item.val
    IN  IF text_item.raised THEN Raised(text_item.exc, 1, 0)
        ELSE IF score_item.raised THEN Raised(score_item.exc, 1, 0)
        ELSE IF ~Truthy(raw_passage)
        THEN Returned([answer |-> NoInformationAnswer],
                      <<LogCall(question, NoInformationAnswer, 0, "error")>>, 1, 0)
        ELSE IF score.v >= SIMILARITY_THRESHOLD
        THEN LET rewritten_answer ==
                     rewrite_answer(HF_API_TOKEN, question, raw_passage, attempts)
             IN  IF rewritten_answer.raised THEN Raised(rewritten_answer.exc, 1, 1)
                 ELSE IF Truthy(rewritten_answer.val)
                 THEN Returned([answer |-> rewritten_answer.val.v],
                               <<LogCall(question, rewritten_answer.val.v, score.v,
                                         "rewrite")>>, 1, 1)
                 ELSE Returned([answer |-> raw_passage.v],
                               <<LogCall(question, raw_passage.v, score.v, "direct")>>,
                               1, 1)
        ELSE Returned([answer |-> fallback_message(question)],
                      <<LogCall(question, fallback_message(question), score.v,
                                "fallback")>>, 1, 0)

\* ------------------------------------------------------------ the service

\* what the rewrite API does on the two attempts of one rewrite_answer call
RewriteBehaviours ==
    { <<Failed("RequestError"), Failed("RequestError")>>,
      <<Failed("TimeoutException"), Generated(<<>>)>>,
      <<Failed("HTTPStatusError"), Generated(<<"r1">>)>>,
      <<Generated(<<"r2">>), Failed("Exception")>> }

\* the table chat_logs found in the database file when the process starts
StartColumns == {{}, BaseColumns, AllColumns}

\* the value of query_out before any call
NoQuery ==
    [calls |-> 0, built |-> FALSE, query_text |-> "", top_k |-> 0,
     source_nodes |-> <<>>, result |-> <<>>]

\* the value of last before any request
NoRequest ==
    [question |-> "", source_nodes |-> <<>>, attempts |-> <<>>, fault |-> "none",
     rows_before |-> 0, out |-> Returned([answer |-> <<>>], <<>>, 0, 0)]

\* the engine is asked only when an index is loaded
EngineAnswers == IF Truthy(index) THEN SourceNodes(TOP_K) ELSE {<<>>}

\* the value of sink_op before any direct call
NoSinkOp ==
    [n |-> 0, op |-> "none", db_ok |-> TRUE, fault |-> "none",
     call |-> LogCall("", <<>>, 0, ""), clock |-> 0, inits |-> 0,
     columns_before |-> {}, rows_before |-> <<>>, raised |-> FALSE]

\* the value of rewrite_out before any direct call
NoRewrite ==
    [calls |-> 0, token |-> FALSE, passages |-> None, attempts |-> <<>>,
     result |-> [raised |-> FALSE, exc |-> "", val |-> None, http_calls |-> 0]]

\* no request is in flight
NoInflight == <<>>

\* the crawler has not been started
NoCrawl ==
    [started |-> FALSE, site |-> <<>>, max_depth |-> 0, max_retries |-> 0,
     visited_urls |-> {}, pages_data |-> <<>>, url_visit_count |-> <<>>,
     stack |-> <<>>, last_call |-> [url |-> "", depth |-> 0],
     fetch_log |-> <<>>, events |-> {}, followed |-> {}]

\* the value of validate_out before any call
NoValidate == [calls |-> 0, pages_data |-> <<>>, results |-> <<>>]

\* the value of chunk_out before any call
NoChunk ==
    [sentences |-> <<>>, max_tokens |-> 0, i |-> 0, chunks |-> <<>>,
     current_chunk |-> <<>>, current_tokens |-> 0, iterations |-> 0,
     returned |-> FALSE, result |-> <<>>]

\* nothing has been called directly
UnitsIdle ==
    /\ rewrite_out = NoRewrite
    /\ inflight = NoInflight
    /\ crawler = NoCrawl
    /\ validate_out = NoValidate
    /\ chunk_out = NoChunk

\* the service has not been started and nothing was called on its parts
ServiceIdle ==
    /\ pc = "boot"
    /\ index_dir = "missing"
    /\ SIMILARITY_THRESHOLD = DEFAULT_SIMILARITY_THRESHOLD
    /\ HF_API_TOKEN = FALSE
    /\ index = None
    /\ db_columns = {}
    /\ chat_logs = <<>>
    /\ now = 0
    /\ handled = 0
    /\ last = NoRequest
    /\ adapter = NewHuggingFaceIndex
    /\ query_out = NoQuery
    /\ sink_op = NoSinkOp

Init ==
    /\ pc = "boot"
    /\ index_dir \in IndexDirs
    /\ SIMILARITY_THRESHOLD \in Thresholds
    /\ HF_API_TOKEN \in BOOLEAN
    /\ index = None
    /\ db_columns \in StartColumns
    /\ chat_logs = <<>>
    /\ now = 0
    /\ handled = 0
    /\ last = NoRequest
    /\ adapter = NewHuggingFaceIndex
    /\ query_out = NoQuery
    /\ sink_op = NoSinkOp
    /\ UnitsIdle

\* main.py lines 11-18: init_db(), init_settings(), index = load_index()
Startup(db_ok) ==
    /\ pc = "boot"
    /\ pc' = "serving"
    /\ db_columns' = init_db(db_columns, db_ok)
    /\ chat_logs' = add_columns(chat_logs, init_db(db_columns, db_ok))
    /\ index' = load_index(index_dir)
    /\ UNCHANGED <<index_dir, SIMILARITY_THRESHOLD, HF_API_TOKEN, now,
                   handled, last, adapter_vars, sink_op, unit_vars>>

\* the log_interaction calls of one request, in order, until one raises
RECURSIVE LogAll(_, _, _, _)
LogAll(rows, calls, clock, fault) ==
    IF calls = <<>> THEN [rows |-> rows, raised |-> FALSE, exc |-> ""]
    ELSE LET logged == log_interaction(rows, db_columns, clock, Head(calls), fault)
         IN  IF logged.raised THEN logged
             ELSE LogAll(logged.rows, Tail(calls), clock, fault)

\* where the sink write of a request fails; there is none to fail when the
\* handler does not reach log_interaction
SinkOutcomes(out) == IF out.log_calls = <<>> THEN {"none"} ELSE SinkFaults

\* one POST /ask, from the request to the response: what the handler decides,
\* then its log_interaction call, then the return (or what log_interaction
\* let escape)
Ask(question, source_nodes, attempts, fault) ==
    /\ pc = "serving"
    /\ handled < MaxRequests
    /\ LET handler == ask(question, source_nodes, attempts)
           logged == LogAll(chat_logs, handler.log_calls, now + 1, fault)
           out == IF logged.raised
                  THEN Raised(logged.exc, handler.searches, handler.rewrite_calls)
                  ELSE handler
       IN  /\ chat_logs' = logged.rows
           /\ last' = [question |-> question, source_nodes |-> source_nodes,
                       attempts |-> attempts, fault |-> fault,
                       rows_before |-> Len(chat_logs), out |-> out]
    /\ handled' = handled + 1
    /\ now' = now + 1
    /\ UNCHANGED <<pc, index_dir, SIMILARITY_THRESHOLD, HF_API_TOKEN, index,
                   db_columns, adapter_vars, sink_op, unit_vars>>

Next ==
    \/ \E db_ok \in BOOLEAN : Startup(db_ok)
    \/ \E question \in Questions, source_nodes \in EngineAnswers,
          attempts \in RewriteBehaviours :
            \E fault \in SinkOutcomes(ask(question, source_nodes, attempts)) :
                Ask(question, source_nodes, attempts, fault)

Spec == Init /\ [][Next]_vars

\* ------------------------------------------- the adapter used on its own

TopKs == {1, TOP_K}

\* the texts handed to add_texts
Corpora == {<<>>, <<"p1">>, <<"p1", "p2">>}

InitAdapter ==
    /\ Init
    /\ index_dir = "missing"
    /\ SIMILARITY_THRESHOLD = DEFAULT_SIMILARITY_THRESHOLD
    /\ HF_API_TOKEN = FALSE
    /\ db_columns = {}

AddTexts(texts) ==
    /\ adapter' = add_texts(adapter, texts)
    /\ UNCHANGED <<service_vars, query_out, sink_op, unit_vars>>

Query(query_text, top_k, source_nodes) ==
    /\ query_out.calls < MaxQueries
    /\ query_out' = [calls |-> query_out.calls + 1,
                     built |-> adapter.index # "None",
                     query_text |-> query_text, top_k |-> top_k,
                     source_nodes |-> source_nodes,
                     result |-> query(adapter, query_text, top_k, source_nodes)]
    /\ UNCHANGED <<service_vars, adapter, sink_op, unit_vars>>

NextAdapter ==
    \/ \E texts \in Corpora : AddTexts(texts)
    \/ \E query_text \in Questions, top_k \in TopKs :
          \E source_nodes \in
                (IF adapter.index = "None" THEN {<<>>} ELSE SourceNodes(top_k)) :
              Query(query_text, top_k, source_nodes)

SpecAdapter == InitAdapter /\ [][NextAdapter]_vars

\* ---------------------------------------------- the sink used on its own

\* the optional columns a chat_logs table of an earlier version has
LegacySchemas == SUBSET OptionalColumns

\* a row written by an earlier version, or by hand as tests/test_logging.py does
LegacyRow(columns, id) ==
    [c \in columns |->
        CASE c = "id" -> id
          [] c = "timestamp" -> Cell(0)
          [] c = "question" -> Cell("q0")
          [] c = "response" -> Cell(<<"a0">>)
          [] c = "score" -> Cell(50)
          [] c = "response_type" -> Cell("rewrite")
          [] OTHER -> NULL]

\* the database file before the first call: no table, or a table with the
\* four base columns and some of the optional ones, empty or holding a row
\* whose predecessor was deleted
SinkTables ==
    {[columns |-> {}, rows |-> <<>>]}
    \cup {[columns |-> BaseColumns \cup S, rows |-> <<>>] : S \in LegacySchemas}
    \cup {[columns |-> BaseColumns \cup S,
           rows |-> <<LegacyRow(BaseColumns \cup S, 2)>>] : S \in LegacySchemas}

\* the log_interaction calls made on the sink
SinkCalls ==
    { LogCall("q1", NoIndexAnswer, 0, "error"),
      LogCall("q2", <<"r1">>, 85, "rewrite") }

InitSink ==
    /\ pc = "boot"
    /\ index_dir = "missing"
    /\ SIMILARITY_THRESHOLD = DEFAULT_SIMILARITY_THRESHOLD
    /\ HF_API_TOKEN = FALSE
    /\ index = None
    /\ \E table \in SinkTables :
          /\ db_columns = table.columns
          /\ chat_logs = table.rows
    /\ now = 0
    /\ handled = 0
    /\ last = NoRequest
    /\ adapter = NewHuggingFaceIndex
    /\ query_out = NoQuery
    /\ sink_op = NoSinkOp
    /\ UnitsIdle

\* one call of init_db
InitDb(db_ok) ==
    /\ sink_op.n < MaxSinkOps
    /\ db_columns' = init_db(db_columns, db_ok)
    /\ chat_logs' = add_columns(chat_logs, init_db(db_columns, db_ok))
    /\ sink_op' = [n |-> sink_op.n + 1, op |-> "init_db", db_ok |-> db_ok,
                   fault |-> "none", call |-> NoSinkOp.call, clock |-> now,
                   inits |-> sink_op.inits + (IF db_ok THEN 1 ELSE 0),
                   columns_before |-> db_columns, rows_before |-> chat_logs,
                   raised |-> FALSE]
    /\ UNCHANGED <<pc, index_dir, SIMILARITY_THRESHOLD, HF_API_TOKEN, index, now,
                   handled, last, adapter_vars, unit_vars>>

\* one call of log_interaction
LogInteraction(call, fault) ==
    /\ sink_op.n < MaxSinkOps
    /\ LET logged == log_interaction(chat_logs, db_columns, now + 1, call, fault)
       IN  /\ chat_logs' = logged.rows
           /\ sink_op' = [n |-> sink_op.n + 1, op |-> "log_interaction",
                          db_ok |-> TRUE, fault |-> fault, call |-> call,
                          clock |-> now + 1, inits |-> sink_op.inits,
                          columns_before |-> db_columns, rows_before |-> chat_logs,
                          raised |-> logged.raised]
    /\ now' = now + 1
    /\ UNCHANGED <<pc, index_dir, SIMILARITY_THRESHOLD, HF_API_TOKEN, index,
                   db_columns, handled, last, adapter_vars, unit_vars>>

NextSink ==
    \/ \E db_ok \in BOOLEAN : InitDb(db_ok)
    \/ \E call \in SinkCalls, fault \in SinkFaults : LogInteraction(call, fault)

SpecSink == InitSink /\ [][NextSink]_vars

\* ------------------------------------- rewrite_answer called on its own

MaxRewriteCalls == 2

\* the generated_text of a 200 answer: empty, blank, without the marker, with
\* one marker, with two, and with the marker at the very end
GeneratedTexts ==
    { <<>>, <<" ">>, <<"r1">>, <<" ", "r1", " ">>,
      <<ANSWER_MARKER, " ", "r1">>,
      <<"q", ANSWER_MARKER, "r1", " ", ANSWER_MARKER, " ", "r2">>,
      <<"r1", ANSWER_MARKER>> }

\* what one HTTP attempt can meet
AttemptOutcomes ==
    { Failed("HTTPStatusError"), Failed("RequestError"),
      Failed("TimeoutException"), Failed("Exception") }
    \cup { Generated(text) : text \in GeneratedTexts }

\* the passages argument: a list of passages, as the signature asks, or the
\* one string main.py line 44 passes
PassageArgs ==
    { PyList(<<>>), PyList(<<Passage(<<"p1">>, 30), Passage(<<"p2">>, 85)>>),
      PyStr(<<"p1">>) }

InitRewrite == InitAdapter

\* one call of rewrite_answer; attempts is what the API does on each attempt
Rewrite(token, question, passages, attempts) ==
    /\ rewrite_out.calls < MaxRewriteCalls
    /\ rewrite_out' = [calls |-> rewrite_out.calls + 1, token |-> token,
                       passages |-> passages, attempts |-> attempts,
                       result |-> rewrite_answer(token, question, passages, attempts)]
    /\ UNCHANGED <<service_vars, adapter_vars, sink_op, inflight, crawler,
                   validate_out, chunk_out>>

NextRewrite ==
    \E token \in BOOLEAN, question \in Questions, passages \in PassageArgs,
       first \in AttemptOutcomes, second \in AttemptOutcomes :
        Rewrite(token, question, passages, <<first, second>>)

SpecRewrite == InitRewrite /\ [][NextRewrite]_vars

\* ------------------------------------------- /ask requests in flight

MaxInflight == 2

\* a request the event loop has accepted and not yet started
Queued(question) ==
    [state |-> "queued", question |-> question, source_nodes |-> <<>>,
     attempts |-> <<>>, fault |-> "none", out |-> NoRequest.out]

\* main.py line 44: the handler gives up the event loop only inside
\* rewrite_answer, at the HTTP call, which is reached when the token is set and
\* the prompt could be built
ask_suspends(question, source_nodes, attempts) ==
    LET out == ask(question, source_nodes, attempts)
    IN  out.status = 200 /\ out.rewrite_calls = 1 /\ HF_API_TOKEN

\* what the engine and the rewrite API hand to a request in flight
InflightAnswers == IF Truthy(index) THEN {s \in NodeSeqs : Len(s) <= 1} ELSE {<<>>}
InflightAttempts ==
    IF Truthy(index) THEN RewriteBehaviours
    ELSE {<<Failed("RequestError"), Failed("RequestError")>>}

\* the server accepts a request while others are in flight
Arrive(question) ==
    /\ pc = "serving"
    /\ Len(inflight) < MaxInflight
    /\ inflight' = Append(inflight, Queued(question))
    /\ UNCHANGED <<service_vars, adapter_vars, sink_op, rewrite_out, crawler,
                   validate_out, chunk_out>>

\* the event loop runs request r until it awaits the rewrite API or returns: a
\* queued request runs from line 26, a request that awaits resumes at line 46
Run(r, source_nodes, attempts, fault) ==
    /\ pc = "serving"
    /\ r \in DOMAIN inflight
    /\ inflight[r].state \in {"queued", "awaiting"}
    /\ LET req == inflight[r]
           resumed == req.state = "awaiting"
           nodes == IF resumed THEN req.source_nodes ELSE source_nodes
           tries == IF resumed THEN req.attempts ELSE attempts
           handler == ask(req.question, nodes, tries)
           logged == LogAll(chat_logs, handler.log_calls, now + 1, fault)
           out == IF logged.raised
                  THEN Raised(logged.exc, handler.searches, handler.rewrite_calls)
                  ELSE handler
       IN  IF ~resumed /\ ask_suspends(req.question, nodes, tries)
           THEN /\ fault = "none"
                /\ inflight' = [inflight EXCEPT ![r] =
                                  [req EXCEPT !.state = "awaiting",
                                              !.source_nodes = nodes,
                                              !.attempts = tries]]
                /\ UNCHANGED <<chat_logs, now>>
           ELSE /\ fault \in SinkOutcomes(handler)
                /\ inflight' = [inflight EXCEPT ![r] =
                                  [state |-> "done", question |-> req.question,
                                   source_nodes |-> nodes, attempts |-> tries,
                                   fault |-> fault, out |-> out]]
                /\ chat_logs' = logged.rows
                /\ now' = now + 1
    /\ UNCHANGED <<pc, index_dir, SIMILARITY_THRESHOLD, HF_API_TOKEN, index,
                   db_columns, handled, last, adapter_vars, sink_op, rewrite_out,
                   crawler, validate_out, chunk_out>>

InitConcurrent ==
    /\ Init
    /\ index_dir \in {"missing", "ok"}
    /\ db_columns = AllColumns

NextConcurrent ==
    \/ \E db_ok \in BOOLEAN : Startup(db_ok)
    \/ \E question \in Questions : Arrive(question)
    \/ \E r \in 1..MaxInflight, source_nodes \in InflightAnswers,
          attempts \in InflightAttempts, fault \in SinkFaults :
            Run(r, source_nodes, attempts, fault)

SpecConcurrent == InitConcurrent /\ [][NextConcurrent]_vars

\* ------------------------------------- metropole_crawler/crawler_utils.py

MaxDepth == 2
MaxCrawlRetries == 1

Urls == {"u1", "u2", "u3"}

\* the internal links extract_internal_links finds on each page: every link
\* graph on the three pages in which no page links to itself, rings included,
\* and two graphs with pages that do
Sites ==
    {site \in [Urls -> SUBSET Urls] : \A u \in Urls : u \notin site[u]}
    \cup { [u1 |-> {"u1", "u2"}, u2 |-> {"u2"}, u3 |-> {}],
           [u \in Urls |-> Urls] }

\* something crawl_page did to url at depth: "visit" is visited_urls.add,
\* "fetch" a fetch_page call, "page" pages_data.append
Event(kind, url, depth) == [kind |-> kind, url |-> url, depth |-> depth]

\* the frame of a crawl_page call that got past its two checks
Frame(url, depth) ==
    [url |-> url, depth |-> depth, pc |-> "fetch", retries |-> 0, links |-> {}]

\* a variant of enter without the visited check
enter_revisits(c, url, depth) ==
    LET counted == [c EXCEPT !.url_visit_count[url] = @ + 1,
                             !.last_call = [url |-> url, depth |-> depth]]
    IN  IF depth > c.max_depth THEN counted
        ELSE [counted EXCEPT !.visited_urls = @ \cup {url},
                             !.stack = <<Frame(url, depth)>> \o @,
                             !.events = @ \cup {Event("visit", url, depth)}]

\* a variant of enter without the depth check
enter_any_depth(c, url, depth) ==
    LET counted == [c EXCEPT !.url_visit_count[url] = @ + 1,
                             !.last_call = [url |-> url, depth |-> depth]]
    IN  IF url \in c.visited_urls THEN counted
        ELSE [counted EXCEPT !.visited_urls = @ \cup {url},
                             !.stack = <<Frame(url, depth)>> \o @,
                             !.events = @ \cup {Event("visit", url, depth)}]

\* crawl_page lines 328-345: count the call, return when the URL was visited
\* or lies too deep, else mark it visited and go on to fetch it
enter(c, url, depth) ==
    LET counted == [c EXCEPT !.url_visit_count[url] = @ + 1,
                             !.last_call = [url |-> url, depth |-> depth]]
    IN  IF url \in c.visited_urls THEN counted
        ELSE IF depth > c.max_depth THEN counted
        ELSE [counted EXCEPT !.visited_urls = @ \cup {url},
                             !.stack = <<Frame(url, depth)>> \o @,
                             !.events = @ \cup {Event("visit", url, depth)}]

\* a variant of fetch_step that allows one retry more
fetch_step_one_more_retry(c, ok) ==
    LET f == Head(c.stack)
        fetched == [c EXCEPT !.fetch_log[f.url] = Append(@, ok),
                             !.events = @ \cup {Event("fetch", f.url, f.depth)}]
    IN  IF ok
        THEN [fetched EXCEPT
                 !.pages_data = Append(@, [url |-> f.url]),
                 !.events = @ \cup {Event("page", f.url, f.depth)},
                 !.stack = <<[f EXCEPT !.pc = "links", !.links = c.site[f.url]]>>
                           \o Tail(c.stack)]
        ELSE IF f.retries + 1 <= c.max_retries + 1
        THEN [fetched EXCEPT !.stack = <<[f EXCEPT !.retries = @ + 1]>> \o Tail(c.stack)]
        ELSE [fetched EXCEPT !.stack = Tail(c.stack)]

\* lines 352-386, one turn of the retry loop in the frame on top: a fetch_page
\* call; on success the links are extracted and the page is appended, on
\* failure retries is counted up and the call returns once it passes max_retries
fetch_step(c, ok) ==
    LET f == Head(c.stack)
        fetched == [c EXCEPT !.fetch_log[f.url] = Append(@, ok),
                             !.events = @ \cup {Event("fetch", f.url, f.depth)}]
    IN  IF ok
        THEN [fetched EXCEPT
                 !.pages_data = Append(@, [url |-> f.url]),
                 !.events = @ \cup {Event("page", f.url, f.depth)},
                 !.stack = <<[f EXCEPT !.pc = "links", !.links = c.site[f.url]]>>
                           \o Tail(c.stack)]
        ELSE IF f.retries + 1 <= c.max_retries
        THEN [fetched EXCEPT !.stack = <<[f EXCEPT !.retries = @ + 1]>> \o Tail(c.stack)]
        ELSE [fetched EXCEPT !.stack = Tail(c.stack)]

\* lines 389-404, one turn of the loop over internal_links in the frame on
\* top: skip a visited link or one too deep, else call crawl_page on it
link_step(c, link) ==
    LET f == Head(c.stack)
        rest == [c EXCEPT !.stack = <<[f EXCEPT !.links = @ \ {link}]>> \o Tail(c.stack)]
    IN  IF link \in c.visited_urls THEN rest
        ELSE IF f.depth + 1 > c.max_depth THEN rest
        ELSE enter([rest EXCEPT !.followed = @ \cup {<<f.url, link>>}],
                   link, f.depth + 1)

\* the arguments of the outermost call: the site, the limits, and the
\* visited_urls and url_visit_count the caller hands in
CrawlSetups ==
    { [NoCrawl EXCEPT !.site = site, !.max_depth = max_depth,
                      !.max_retries = max_retries, !.visited_urls = visited,
                      !.url_visit_count = [u \in Urls |-> IF u \in visited THEN 1 ELSE 0],
                      !.fetch_log = [u \in Urls |-> <<>>]] :
        site \in Sites, max_depth \in 0..MaxDepth, max_retries \in 0..MaxCrawlRetries,
        visited \in {{}, {"u1"}} }

InitCrawler ==
    /\ ServiceIdle
    /\ rewrite_out = NoRewrite
    /\ inflight = NoInflight
    /\ crawler \in CrawlSetups
    /\ validate_out = NoValidate
    /\ chunk_out = NoChunk

\* the depths of the outermost call: the top, the limit, and past the limit
StartDepths == {0, crawler.max_depth, crawler.max_depth + 1}

\* the outermost call crawl_page(url, depth, visited_urls, pages_data, ...)
StartCrawl(url, depth) ==
    /\ ~crawler.started
    /\ crawler' = enter([crawler EXCEPT !.started = TRUE], url, depth)
    /\ UNCHANGED <<service_vars, adapter_vars, sink_op, rewrite_out, inflight,
                   validate_out, chunk_out>>

\* fetch_page answers the call on top of the stack
Fetch(ok) ==
    /\ crawler.stack # <<>>
    /\ Head(crawler.stack).pc = "fetch"
    /\ crawler' = fetch_step(crawler, ok)
    /\ UNCHANGED <<service_vars, adapter_vars, sink_op, rewrite_out, inflight,
                   validate_out, chunk_out>>

\* the loop over internal_links takes its next link; list(set(...)) fixes no
\* order
FollowLink(link) ==
    /\ crawler.stack # <<>>
    /\ Head(crawler.stack).pc = "links"
    /\ link \in Head(crawler.stack).links
    /\ crawler' = link_step(crawler, link)
    /\ UNCHANGED <<service_vars, adapter_vars, sink_op, rewrite_out, inflight,
                   validate_out, chunk_out>>

\* the loop over internal_links is over and the call returns
Return ==
    /\ crawler.stack # <<>>
    /\ Head(crawler.stack).pc = "links"
    /\ Head(crawler.stack).links = {}
    /\ crawler' = [crawler EXCEPT !.stack = Tail(@)]
    /\ UNCHANGED <<service_vars, adapter_vars, sink_op, rewrite_out, inflight,
                   validate_out, chunk_out>>

NextCrawler ==
    \/ \E depth \in StartDepths : StartCrawl("u1", depth)
    \/ \E ok \in BOOLEAN : Fetch(ok)
    \/ \E link \in Urls : FollowLink(link)
    \/ Return

SpecCrawler == InitCrawler /\ [][NextCrawler]_vars

\* the crawler is one sequential program: a step that can be taken is taken
SpecCrawlerLive == SpecCrawler /\ WF_vars(NextCrawler)


\* ------------------------------------------------------------ /debug/ask

\* the body of a /debug/ask response
DebugBody(question, score, response_type, raw_passage, final_response) ==
    [question |-> question, score |-> score, response_type |-> response_type,
     raw_passage |-> raw_passage, final_response |-> final_response]

\* main.py lines 60-116: the whole handler of POST /debug/ask
debug_ask(question, source_nodes, attempts) ==
    IF ~Truthy(index)
    THEN Returned(DebugBody(question, 0, "error", None, NoIndexAnswer), <<>>, 0, 0)
    ELSE
    LET query_result == PyList(query(index, question, TOP_K, source_nodes))
        text_item == GetItem(query_result, "text")
        score_item == GetItem(query_result, "score")
        raw_passage == text_item.val
        score == score_item.val
    IN  IF text_item.raised THEN Raised(text_item.exc, 1, 0)
        ELSE IF score_item.raised THEN Raised(score_item.exc, 1, 0)
        ELSE IF ~Truthy(raw_passage)
        THEN Returned(DebugBody(question, 0, "error", None, NoInformationAnswer),
                      <<>>, 1, 0)
        ELSE IF score.v >= SIMILARITY_THRESHOLD
        THEN LET rewritten_answer ==
                     rewrite_answer(HF_API_TOKEN, question, raw_passage, attempts)
             IN  IF rewritten_answer.raised THEN Raised(rewritten_answer.exc, 1, 1)
                 ELSE IF Truthy(rewritten_answer.val)
                 THEN Returned(DebugBody(question, score.v, "rewrite", raw_passage,
                                         rewritten_answer.val.v),
                               <<LogCall(question, rewritten_answer.val.v, score.v,
                                         "rewrite")>>, 1, 1)
                 ELSE Returned(DebugBody(question, score.v, "direct", raw_passage,
                                         raw_passage.v),
                               <<LogCall(question, raw_passage.v, score.v, "direct")>>,
                               1, 1)
        ELSE Returned(DebugBody(question, score.v, "fallback", raw_passage,
                                fallback_message(question)),
                      <<LogCall(question, fallback_message(question), score.v,
                                "fallback")>>, 1, 0)

\* one POST /debug/ask, from the request to the response
DebugAsk(question, source_nodes, attempts, fault) ==
    /\ pc = "serving"
    /\ handled < MaxRequests
    /\ LET handler == debug_ask(question, source_nodes, attempts)
           logged == LogAll(chat_logs, handler.log_calls, now + 1, fault)
           out == IF logged.raised
                  THEN Raised(logged.exc, handler.searches, handler.rewrite_calls)
                  ELSE handler
       IN  /\ chat_logs' = logged.rows
           /\ last' = [question |-> question, source_nodes |-> source_nodes,
                       attempts |-> attempts, fault |-> fault,
                       rows_before |-> Len(chat_logs), out |-> out]
    /\ handled' = handled + 1
    /\ now' = now + 1
    /\ UNCHANGED <<pc, index_dir, SIMILARITY_THRESHOLD, HF_API_TOKEN, index,
                   db_columns, adapter_vars, sink_op, unit_vars>>

\* the service with both endpoints in use, its table already migrated
InitDebug == Init /\ db_columns = AllColumns

NextDebug ==
    \/ \E db_ok \in BOOLEAN : Startup(db_ok)
    \/ \E question \in Questions, source_nodes \in EngineAnswers,
          attempts \in RewriteBehaviours :
            \E fault \in SinkOutcomes(ask(question, source_nodes, attempts)) :
                Ask(question, source_nodes, attempts, fault)
    \/ \E question \in Questions, source_nodes \in EngineAnswers,
          attempts \in RewriteBehaviours :
            \E fault \in SinkOutcomes(debug_ask(question, source_nodes, attempts)) :
                DebugAsk(question, source_nodes, attempts, fault)

SpecDebug == InitDebug /\ [][NextDebug]_vars

\* ------------------------------------------------ validate_crawled_data

MaxPages == 2

\* line 289: content shorter than this is reported as short
SHORT_CONTENT_LIMIT == 100

\* a URL is its scheme followed by single characters
Schemes == {"http://", "https://"}

\* line 256: re.compile(r'^https?://[^\s/$.?#].[^\s]*$').match(url)
url_pattern_match(url) ==
    /\ Len(url) >= 3
    /\ url[1] \in Schemes
    /\ url[2] \notin {" ", "/", "$", ".", "?", "#"}
    /\ \A i \in 4..Len(url) : url[i] # " "

\* len(content): the characters of the fragments of a text
FragmentLen(fragment) ==
    CASE fragment = "Short." -> 6
      [] fragment = "This is a valid page with sufficient content that exceeds the minimum length requirement for validation." -> 105
      [] OTHER -> 1

RECURSIVE StrLen(_)
StrLen(text) == IF text = <<>> THEN 0 ELSE FragmentLen(Head(text)) + StrLen(Tail(text))

\* "key" not in page or not page["key"]
Lacks(page, key) == key \notin DOMAIN page \/ ~Truthy(page[key])

\* page.get("url", "Unknown URL")
UrlOrUnknown(page) ==
    IF "url" \in DOMAIN page THEN page["url"] ELSE PyStr(<<"Unknown URL">>)

\* a variant of validate_page that treats short content as an error
validate_page_short_is_error(page) ==
    LET no_url == Lacks(page, "url")
        malformed == ~no_url /\ ~url_pattern_match(page["url"].v)
        no_title == Lacks(page, "title")
        no_content == Lacks(page, "content")
        short == ~no_content /\ StrLen(page["content"].v) < SHORT_CONTENT_LIMIT
    IN  [page_valid |-> ~(no_url \/ malformed \/ no_title \/ no_content \/ short),
         missing_url |-> IF no_url THEN <<"Unknown URL (missing field)">> ELSE <<>>,
         malformed_urls |-> IF malformed THEN <<page["url"]>> ELSE <<>>,
         empty_titles |-> IF no_title THEN <<UrlOrUnknown(page)>> ELSE <<>>,
         empty_content |-> IF no_content THEN <<UrlOrUnknown(page)>> ELSE <<>>,
         short_content |-> IF short
                           THEN <<<<UrlOrUnknown(page), StrLen(page["content"].v)>>>>
                           ELSE <<>>,
         with_url |-> IF no_url THEN 0 ELSE 1,
         with_title |-> IF no_title THEN 0 ELSE 1,
         with_content |-> IF no_content THEN 0 ELSE 1]

\* lines 259-298, the body of the loop for one page: page_valid and what the
\* page adds to each list and count
validate_page(page) ==
    LET no_url == Lacks(page, "url")
        malformed == ~no_url /\ ~url_pattern_match(page["url"].v)
        no_title == Lacks(page, "title")
        no_content == Lacks(page, "content")
        short == ~no_content /\ StrLen(page["content"].v) < SHORT_CONTENT_LIMIT
    IN  [page_valid |-> ~(no_url \/ malformed \/ no_title \/ no_content),
         missing_url |-> IF no_url THEN <<"Unknown URL (missing field)">> ELSE <<>>,
         malformed_urls |-> IF malformed THEN <<page["url"]>> ELSE <<>>,
         empty_titles |-> IF no_title THEN <<UrlOrUnknown(page)>> ELSE <<>>,
         empty_content |-> IF no_content THEN <<UrlOrUnknown(page)>> ELSE <<>>,
         short_content |-> IF short
                           THEN <<<<UrlOrUnknown(page), StrLen(page["content"].v)>>>>
                           ELSE <<>>,
         with_url |-> IF no_url THEN 0 ELSE 1,
         with_title |-> IF no_title THEN 0 ELSE 1,
         with_content |-> IF no_content THEN 0 ELSE 1]

\* lines 241-253: validation_results before the loop
EmptyResults(total_pages) ==
    [total_pages |-> total_pages, valid_pages |-> 0, problematic_pages |-> 0,
     pages_with_url |-> 0, pages_with_title |-> 0, pages_with_content |-> 0,
     missing_url |-> <<>>, empty_titles |-> <<>>, empty_content |-> <<>>,
     short_content |-> <<>>, malformed_urls |-> <<>>]

\* validate_crawled_data: the loop over pages_data, first page first
RECURSIVE validate_crawled_data(_)
validate_crawled_data(pages_data) ==
    IF pages_data = <<>> THEN EmptyResults(0)
    ELSE LET before == validate_crawled_data(SubSeq(pages_data, 1, Len(pages_data) - 1))
             p == validate_page(pages_data[Len(pages_data)])
         IN  [total_pages |-> Len(pages_data),
              valid_pages |-> before.valid_pages + (IF p.page_valid THEN 1 ELSE 0),
              problematic_pages |->
                  before.problematic_pages + (IF p.page_valid THEN 0 ELSE 1),
              pages_with_url |-> before.pages_with_url + p.with_url,
              pages_with_title |-> before.pages_with_title + p.with_title,
              pages_with_content |-> before.pages_with_content + p.with_content,
              missing_url |-> before.missing_url \o p.missing_url,
              empty_titles |-> before.empty_titles \o p.empty_titles,
              empty_content |-> before.empty_content \o p.empty_content,
              short_content |-> before.short_content \o p.short_content,
              malformed_urls |-> before.malformed_urls \o p.malformed_urls]

\* the values a page has under url, title and content
UrlValues ==
    { None, PyStr(<<>>), PyStr(<<"n", "o", "t">>), PyStr(<<"https://", "e", "x">>) }
TitleValues == { PyStr(<<>>), PyStr(<<"Example">>) }
ContentValues ==
    { PyStr(<<>>), PyStr(<<"Short.">>),
      PyStr(<<"This is a valid page with sufficient content that exceeds the minimum length requirement for validation.">>) }

\* a page with key -> value added when value is given
With(page, key, values) ==
    {page} \cup {[k \in DOMAIN page \cup {key} |-> IF k = key THEN v ELSE page[k]] :
                    v \in values}

\* the page dictionaries: each of url, title and content is absent or has one
\* of its values
RECURSIVE Union(_)
Union(sets) ==
    IF sets = {} THEN {}
    ELSE LET x == CHOOSE y \in sets : TRUE IN x \cup Union(sets \ {x})

PageDicts ==
    LET with_url == With(<<>>, "url", UrlValues)
        with_title == Union({With(p, "title", TitleValues) : p \in with_url})
    IN  Union({With(p, "content", ContentValues) : p \in with_title})

InitValidate ==
    /\ ServiceIdle
    /\ rewrite_out = NoRewrite
    /\ inflight = NoInflight
    /\ crawler = NoCrawl
    /\ \E pages_data \in SeqsUpTo(PageDicts, MaxPages) :
          validate_out = [NoValidate EXCEPT !.pages_data = pages_data]
    /\ chunk_out = NoChunk

\* the call validate_crawled_data(pages_data)
Validate ==
    /\ validate_out.calls = 0
    /\ validate_out' = [validate_out EXCEPT
                           !.calls = 1,
                           !.results = validate_crawled_data(validate_out.pages_data)]
    /\ UNCHANGED <<service_vars, adapter_vars, sink_op, rewrite_out, inflight,
                   crawler, chunk_out>>

NextValidate == Validate

SpecValidate == InitValidate /\ [][NextValidate]_vars

\* ------------------------------------------------------- chunk_sentences

MaxSentences == 4
MaxTokens == 5

\* lines 48-54: the names of the five CONTACT_INFO_PATTERNS
CONTACT_INFO_PATTERNS == {"unit", "seat", "year", "email", "phone"}

\* the sentences of the inputs: their token count (count_tokens is the length
\* of the tokenizer's encoding, which has two special tokens, so at least
\* 2), the patterns that match inside them, and whether they end with the
\* word "Unit" or start with digits
Sentences ==
    {"Write to board@metropole.org", "Unit 22, 206-555-0100", "Ask at the Unit",
     "22 is on floor two."}

count_tokens(sentence) ==
    CASE sentence = "Write to board@metropole.org" -> 2
      [] sentence = "Unit 22, 206-555-0100" -> 5
      [] sentence = "Ask at the Unit" -> 3
      [] sentence = "22 is on floor two." -> 4

PatternsIn(sentence) ==
    CASE sentence = "Write to board@metropole.org" -> {"email"}
      [] sentence = "Unit 22, 206-555-0100" -> {"unit", "phone"}
      [] OTHER -> {}

\* r'Unit\s+\d+' also matches across the "\n" that joins two sentences
PatternsAcross(lines) ==
    IF \E k \in 1..(Len(lines) - 1) :
           lines[k] = "Ask at the Unit" /\ lines[k + 1] = "22 is on floor two."
    THEN {"unit"} ELSE {}

\* is_contact_info('\n'.join(lines)): at least two patterns match
is_contact_info(lines) ==
    LET matched == UNION {PatternsIn(lines[k]) : k \in DOMAIN lines}
                       \cup PatternsAcross(lines)
    IN  Cardinality(matched \cap CONTACT_INFO_PATTERNS) >= 2

\* sentences[a:b] with 0-based a and b, b clipped to the length
Slice(sentences, a, b) ==
    SubSeq(sentences, a + 1, IF b < Len(sentences) THEN b ELSE Len(sentences))

\* lines 233-240: the contact chunk that starts at sentences[i], up to 4
\* sentences, ended early by the sentence that takes it over max_tokens
RECURSIVE contact_chunk(_, _, _, _)
contact_chunk(lines, max_tokens, contact_tokens, taken) ==
    IF lines = <<>> THEN taken
    ELSE LET t == contact_tokens + count_tokens(Head(lines))
         IN  IF t > max_tokens THEN Append(taken, Head(lines))
             ELSE contact_chunk(Tail(lines), max_tokens, t, Append(taken, Head(lines)))

\* a variant of chunk_step that moves i four sentences past a contact chunk
chunk_step_skips_four(c) ==
    LET sentence == c.sentences[c.i + 1]
        sentence_tokens == count_tokens(sentence)
        flushed == IF c.current_chunk # <<>> THEN Append(c.chunks, c.current_chunk)
                   ELSE c.chunks
    IN  IF sentence_tokens > c.max_tokens
        THEN [c EXCEPT !.chunks = Append(flushed, <<sentence>>),
                       !.current_chunk = <<>>, !.current_tokens = 0,
                       !.i = c.i + 1, !.iterations = c.iterations + 1]
        ELSE LET fits == c.current_tokens + sentence_tokens <= c.max_tokens
                 d == IF fits
                      THEN [c EXCEPT !.current_chunk = Append(c.current_chunk, sentence),
                                     !.current_tokens = c.current_tokens + sentence_tokens,
                                     !.i = c.i + 1]
                      ELSE [c EXCEPT !.chunks = Append(c.chunks, c.current_chunk),
                                     !.current_chunk = <<>>, !.current_tokens = 0]
                 window == Slice(d.sentences, d.i, d.i + 4)
             IN  IF d.i < Len(d.sentences) /\ is_contact_info(window)
                 THEN LET saved == IF d.current_chunk # <<>>
                                   THEN Append(d.chunks, d.current_chunk)
                                   ELSE d.chunks
                          contact == contact_chunk(window, d.max_tokens, 0, <<>>)
                      IN  [d EXCEPT !.chunks = Append(saved, contact),
                                    !.i = d.i + 4,
                                    !.current_chunk = <<>>, !.current_tokens = 0,
                                    !.iterations = c.iterations + 1]
                 ELSE [d EXCEPT !.iterations = c.iterations + 1]

\* lines 199-249: one iteration of the while loop
chunk_step(c) ==
    LET sentence == c.sentences[c.i + 1]
        sentence_tokens == count_tokens(sentence)
        flushed == IF c.current_chunk # <<>> THEN Append(c.chunks, c.current_chunk)
                   ELSE c.chunks
    IN  IF sentence_tokens > c.max_tokens
        THEN [c EXCEPT !.chunks = Append(flushed, <<sentence>>),
                       !.current_chunk = <<>>, !.current_tokens = 0,
                       !.i = c.i + 1, !.iterations = c.iterations + 1]
        ELSE LET fits == c.current_tokens + sentence_tokens <= c.max_tokens
                 d == IF fits
                      THEN [c EXCEPT !.current_chunk = Append(c.current_chunk, sentence),
                                     !.current_tokens = c.current_tokens + sentence_tokens,
                                     !.i = c.i + 1]
                      ELSE [c EXCEPT !.chunks = Append(c.chunks, c.current_chunk),
                                     !.current_chunk = <<>>, !.current_tokens = 0]
                 window == Slice(d.sentences, d.i, d.i + 4)
             IN  IF d.i < Len(d.sentences) /\ is_contact_info(window)
                 THEN LET saved == IF d.current_chunk # <<>>
                                   THEN Append(d.chunks, d.current_chunk)
                                   ELSE d.chunks
                          contact == contact_chunk(window, d.max_tokens, 0, <<>>)
                      IN  [d EXCEPT !.chunks = Append(saved, contact),
                                    !.i = d.i + Len(contact),
                                    !.current_chunk = <<>>, !.current_tokens = 0,
                                    !.iterations = c.iterations + 1]
                 ELSE [d EXCEPT !.iterations = c.iterations + 1]

\* lines 251-255: after the loop
chunk_return(c) ==
    [c EXCEPT !.returned = TRUE,
              !.result = IF c.current_chunk # <<>> THEN Append(c.chunks, c.current_chunk)
                         ELSE c.chunks]

InitChunk ==
    /\ ServiceIdle
    /\ rewrite_out = NoRewrite
    /\ inflight = NoInflight
    /\ crawler = NoCrawl
    /\ validate_out = NoValidate
    /\ \E sentences \in SeqsUpTo(Sentences, MaxSentences), max_tokens \in 1..MaxTokens :
          chunk_out = [NoChunk EXCEPT !.sentences = sentences, !.max_tokens = max_tokens]

\* line 199: while i < len(sentences)
ChunkStep ==
    /\ ~chunk_out.returned
    /\ chunk_out.i < Len(chunk_out.sentences)
    /\ chunk_out' = chunk_step(chunk_out)
    /\ UNCHANGED <<service_vars, adapter_vars, sink_op, rewrite_out, inflight,
                   crawler, validate_out>>

ChunkReturn ==
    /\ ~chunk_out.returned
    /\ chunk_out.i >= Len(chunk_out.sentences)
    /\ chunk_out' = chunk_return(chunk_out)
    /\ UNCHANGED <<service_vars, adapter_vars, sink_op, rewrite_out, inflight,
                   crawler, validate_out>>

NextChunk == ChunkStep \/ ChunkReturn

SpecChunk == InitChunk /\ [][NextChunk]_vars

\* the interpreter runs the loop until it ends
SpecChunkLive == SpecChunk /\ WF_vars(NextChunk)

\* ------------------------------------------------------------- the claims

ResponseTypes == {"rewrite", "direct", "fallback", "error"}

\* the response type a finished request resolved to: the one its handler
\* handed to log_interaction, "none" when it never got that far
ResponseType(out) ==
    IF out.log_calls = <<>> THEN "none" ELSE out.log_calls[1].response_type

\* the text the caller receives, <<>> when the handler raised
FinalResponse(out) == IF out.status = 200 THEN out.body.answer ELSE <<>>

Contains(text, fragment) == \E i \in DOMAIN text : text[i] = fragment

IndexLoaded == index.t # "None"

\* section 4.2 of the specification: the candidates that clear the threshold,
\* highest score first
Retained(source_nodes) ==
    SortDesc(SelectSeq(source_nodes, LAMBDA n : n.score >= SIMILARITY_THRESHOLD))

\* the rewrite collaborator, called as its signature asks (question, list of
\* passages), returns no text
RewriteFails(question, source_nodes, attempts) ==
    LET r == rewrite_answer(HF_API_TOKEN, question, PyList(Retained(source_nodes)),
                            attempts)
    IN  r.raised \/ ~Truthy(r.val)

\* C1: every /ask request, whatever the index state and the rewrite outcome,
\* resolves to exactly one of rewrite, direct, fallback, error and no
\* exception reaches the caller.
C1_EveryRequestResolves ==
    handled > 0 =>
        /\ last.out.status = 200
        /\ last.out.exc = ""
        /\ Len(last.out.log_calls) = 1
        /\ ResponseType(last.out) \in ResponseTypes

\* C2: when the search result is non-empty and no candidate reaches the
\* threshold, the request resolves to fallback and its final response
\* contains the question.
C2_BelowThresholdFallsBack ==
    ( /\ handled > 0
      /\ IndexLoaded
      /\ last.source_nodes # <<>>
      /\ \A i \in DOMAIN last.source_nodes :
            last.source_nodes[i].score < SIMILARITY_THRESHOLD )
    => /\ ResponseType(last.out) = "fallback"
       /\ Contains(FinalResponse(last.out), last.question)

\* C3: when a passage is retained and the rewrite collaborator fails, the
\* request resolves to direct, never rewrite, and the final response is the
\* text of the highest-scoring retained passage.
C3_RewriteFailureGivesDirect ==
    ( /\ handled > 0
      /\ IndexLoaded
      /\ Retained(last.source_nodes) # <<>>
      /\ RewriteFails(last.question, last.source_nodes, last.attempts) )
    => /\ ResponseType(last.out) = "direct"
       /\ FinalResponse(last.out) = Retained(last.source_nodes)[1].text

\* C5: direct is chosen only after a rewrite was attempted on a non-empty
\* retained set and failed, and whenever a passage is retained the rewrite is
\* attempted.
C5_RewriteAttemptedWhenRetained ==
    handled > 0 =>
        /\ ResponseType(last.out) = "direct" =>
              /\ last.out.rewrite_calls >= 1
              /\ Retained(last.source_nodes) # <<>>
        /\ (IndexLoaded /\ Retained(last.source_nodes) # <<>>) =>
              last.out.rewrite_calls >= 1

\* C6: the handler invokes the rewrite collaborator at most once per request,
\* and not at all on a request that ends in error or fallback.
C6_RewriteAtMostOnce ==
    handled > 0 =>
        /\ last.out.rewrite_calls <= 1
        /\ ResponseType(last.out) \in {"error", "fallback"} =>
              last.out.rewrite_calls = 0

\* C6 witness: a request ended in error and the rewrite was not invoked.
C6_Witness ==
    /\ handled > 0
    /\ ResponseType(last.out) = "error"
    /\ last.out.rewrite_calls = 0

\* C7: when load_index found no index at startup, every /ask request returns
\* "No documents indexed yet." with response type error, without a search and
\* without a rewrite call.
C7_NoIndexIsError ==
    (handled > 0 /\ index_dir # "ok") =>
        /\ last.out.status = 200
        /\ last.out.body = [answer |-> NoIndexAnswer]
        /\ last.out.log_calls = <<LogCall(last.question, NoIndexAnswer, 0, "error")>>
        /\ last.out.searches = 0
        /\ last.out.rewrite_calls = 0

\* C7 witness: a request was handled by a process that found no index.
C7_Witness ==
    /\ handled > 0
    /\ index_dir # "ok"
    /\ last.out.body = [answer |-> NoIndexAnswer]

\* C8: when an index is loaded and the search finds nothing, the request
\* returns "No information found for this question." with response type
\* error, HTTP 200 and no exception.
C8_EmptySearchIsError ==
    (handled > 0 /\ IndexLoaded /\ last.source_nodes = <<>>) =>
        /\ last.out.status = 200
        /\ last.out.body = [answer |-> NoInformationAnswer]
        /\ ResponseType(last.out) = "error"

\* C9 as stated: on an index that was never built or loaded, query returns an
\* empty sequence.
C9_UnbuiltReturnsEmpty ==
    (query_out.calls > 0 /\ ~query_out.built) => query_out.result = <<>>

\* C9 as amended: on an index that was never built or loaded, query raises
\* nothing and returns exactly one placeholder passage, with the text
\* "No documents indexed yet." and score 0.
C9_UnbuiltReturnsPlaceholder ==
    (query_out.calls > 0 /\ ~query_out.built) =>
        query_out.result = <<Passage(<<"No documents indexed yet.">>, 0)>>

\* C9 witness: query was called on an index that was never built.
C9_Witness == query_out.calls > 0 /\ ~query_out.built

\* C10: a passage whose score equals the threshold is retained, so the
\* request attempts the rewrite and does not end in fallback.
C10_BoundaryIsRetained ==
    ( /\ handled > 0
      /\ IndexLoaded
      /\ last.source_nodes # <<>>
      /\ SortDesc(last.source_nodes)[1].score = SIMILARITY_THRESHOLD )
    => /\ last.out.rewrite_calls = 1
       /\ ResponseType(last.out) \in {"rewrite", "direct"}

ToSet(seq) == {seq[i] : i \in DOMAIN seq}

AtLeast(seq, t) == SelectSeq(seq, LAMBDA n : n.score >= t)

\* C11: for every candidate set P and threshold t, the request splits P into
\* retained and filtered_out: together they are P, they share no passage, and
\* a passage is retained exactly when its score is at least t.
C11_CandidatesPartitioned ==
    (handled > 0 /\ IndexLoaded) =>
        /\ last.out.status = 200
        /\ {"raw_passages", "filtered_out"} \subseteq DOMAIN last.out.body
        /\ LET P == ToSet(last.source_nodes)
               retained == ToSet(last.out.body.raw_passages)
               filtered_out == ToSet(last.out.body.filtered_out)
           IN  /\ retained \cup filtered_out = P
               /\ retained \cap filtered_out = {}
               /\ \A p \in P : p \in retained <=> p.score >= SIMILARITY_THRESHOLD

\* out holds the elements of in, highest score first, and elements of equal
\* score in the order they have in in
IsStableDescOf(out, in) ==
    /\ Len(out) = Len(in)
    /\ \E p \in [DOMAIN out -> DOMAIN in] :
          /\ \A i, j \in DOMAIN out : i # j => p[i] # p[j]
          /\ \A i \in DOMAIN out : out[i] = in[p[i]]
          /\ \A i, j \in DOMAIN out :
                i < j => \/ out[i].score > out[j].score
                         \/ out[i].score = out[j].score /\ p[i] < p[j]

\* C12: the retained passages are ordered by score, highest first, whatever
\* the order in which the engine returned them, and passages of equal score
\* keep the order the engine gave them.
C12_RetainedSortedStable ==
    (query_out.calls > 0 /\ query_out.built /\ query_out.source_nodes # <<>>) =>
        \A t \in Thresholds :
            IsStableDescOf(AtLeast(query_out.result, t),
                           AtLeast(query_out.source_nodes, t))

\* C12 witness: the engine returned a lower score before a higher one, and
\* query handed the higher one back first.
C12_Witness ==
    /\ query_out.calls > 0
    /\ query_out.built
    /\ Len(query_out.source_nodes) = 2
    /\ query_out.source_nodes[1].score < query_out.source_nodes[2].score
    /\ query_out.result[1] = query_out.source_nodes[2]
    /\ AtLeast(query_out.result, DEFAULT_SIMILARITY_THRESHOLD) = query_out.result

\* the score section 4.2 of the specification records for a request
TopRetainedScore(source_nodes) ==
    IF IndexLoaded /\ Retained(source_nodes) # <<>>
    THEN Retained(source_nodes)[1].score
    ELSE 0

\* C13: the score stored in the interaction record and returned to the caller
\* is the score of the top retained passage, and 0 when no passage is
\* retained, that is on every fallback and every error.
C13_RecordedScoreIsTopRetained ==
    handled > 0 =>
        /\ Len(last.out.log_calls) = 1
        /\ last.out.log_calls[1].score = TopRetainedScore(last.source_nodes)
        /\ "score" \in DOMAIN last.out.body
        /\ last.out.body.score = TopRetainedScore(last.source_nodes)

\* the request reached one of the four terminal outcomes
ReachedOutcome == handled > 0 /\ ResponseType(last.out) \in ResponseTypes

\* the newest row is the record of the latest request
LastRowIsRecord ==
    /\ Len(chat_logs) = last.rows_before + 1
    /\ LET row == chat_logs[Len(chat_logs)]
       IN  /\ row.question = Cell(last.question)
           /\ row.response = Cell(FinalResponse(last.out))
           /\ row.response_type = Cell(ResponseType(last.out))

\* C14 as stated: every /ask request that reaches a terminal outcome appends
\* exactly one interaction record, whose question, final response and
\* response type are those of the request.
C14_OneRecordPerOutcome == ReachedOutcome => LastRowIsRecord

\* the write of the latest request went through as far as commit
WriteCommitted ==
    last.fault \in {"none", "close"} /\ AllColumns \subseteq db_columns

\* C14 as amended: every /ask request that reaches a terminal outcome calls
\* log_interaction exactly once; when the write is committed exactly one
\* record is appended, with the question, final response and response type of
\* the request, and when the write fails no record is appended.
C14_OneRecordUnlessWriteFails ==
    ReachedOutcome =>
        /\ Len(last.out.log_calls) = 1
        /\ IF WriteCommitted THEN LastRowIsRecord
           ELSE Len(chat_logs) = last.rows_before

\* C14 witness: a request reached an outcome and its record was appended.
C14_Witness == ReachedOutcome /\ WriteCommitted /\ LastRowIsRecord

\* C15: a failure of the sink write (connect, insert or commit) is swallowed:
\* log_interaction raises nothing and /ask returns the response it would
\* return had the write succeeded.
C15_SinkFailureSwallowed ==
    (handled > 0 /\ (last.fault # "none" \/ ~(AllColumns \subseteq db_columns))) =>
        LET handler == ask(last.question, last.source_nodes, last.attempts)
        IN  /\ last.out = handler
            /\ handler.log_calls # <<>> => last.out.status = 200
            /\ ~WriteCommitted => Len(chat_logs) = last.rows_before

\* C15 witness: the commit of a request's record failed and the request was
\* answered all the same.
C15_Witness ==
    /\ handled > 0
    /\ last.fault = "commit"
    /\ last.out.status = 200
    /\ last.out.body = [answer |-> NoIndexAnswer]
    /\ Len(chat_logs) = last.rows_before

\* rows kept what it held in old: the same rows, in the same order, with the
\* same value in every column of columns
KeepsRows(rows, old, columns) ==
    /\ Len(rows) >= Len(old)
    /\ \A i \in DOMAIN old : \A c \in columns : rows[i][c] = old[i][c]

\* C16: init_db is idempotent: however many times it is called in a row it
\* raises nothing, and after the first call it leaves the columns of the
\* table and every existing row as they are.
C16_InitDbIdempotent ==
    sink_op.op = "init_db" =>
        /\ ~sink_op.raised
        /\ Len(chat_logs) = Len(sink_op.rows_before)
        /\ KeepsRows(chat_logs, sink_op.rows_before, sink_op.columns_before)
        /\ (sink_op.db_ok /\ sink_op.inits >= 2) =>
              /\ db_columns = sink_op.columns_before
              /\ chat_logs = sink_op.rows_before

\* C16 witness: init_db ran a second time on a table that holds a row.
C16_Witness ==
    /\ sink_op.op = "init_db"
    /\ sink_op.db_ok
    /\ sink_op.inits >= 2
    /\ chat_logs # <<>>

\* C17: on an existing chat_logs table that lacks some of the optional
\* columns, init_db adds exactly the missing ones, with NULL in every row,
\* never drops or recreates the table, and leaves id, timestamp, question and
\* response of every row as they were; afterwards all eight columns exist.
C17_MigrationAddsMissing ==
    (sink_op.op = "init_db" /\ sink_op.db_ok /\ sink_op.columns_before # {}) =>
        /\ db_columns = AllColumns
        /\ db_columns \ sink_op.columns_before
              = OptionalColumns \ sink_op.columns_before
        /\ Len(chat_logs) = Len(sink_op.rows_before)
        /\ \A i \in DOMAIN chat_logs :
              /\ DOMAIN chat_logs[i] = AllColumns
              /\ \A c \in sink_op.columns_before :
                    chat_logs[i][c] = sink_op.rows_before[i][c]
              /\ \A c \in AllColumns \ sink_op.columns_before :
                    chat_logs[i][c] = NULL

\* C17 witness: init_db met a table with a row and without three of the
\* optional columns.
C17_Witness ==
    /\ sink_op.op = "init_db"
    /\ sink_op.db_ok
    /\ sink_op.columns_before = BaseColumns \cup {"score"}
    /\ sink_op.rows_before # <<>>
    /\ db_columns = AllColumns

\* C18: the sink is append-only: no call of init_db or log_interaction
\* modifies or deletes a row written before, every successful log_interaction
\* adds exactly one row, and the ids of the rows are strictly increasing.
C18_AppendOnly ==
    /\ \A i, j \in DOMAIN chat_logs : i < j => chat_logs[i].id < chat_logs[j].id
    /\ sink_op.op # "none" =>
          KeepsRows(chat_logs, sink_op.rows_before, sink_op.columns_before)
    /\ sink_op.op = "init_db" => Len(chat_logs) = Len(sink_op.rows_before)
    /\ sink_op.op = "log_interaction" =>
          /\ Len(chat_logs) <= Len(sink_op.rows_before) + 1
          /\ (sink_op.fault = "none" /\ AllColumns \subseteq sink_op.columns_before)
                => Len(chat_logs) = Len(sink_op.rows_before) + 1

\* C18 witness: log_interaction added a row to a table that held one.
C18_Witness ==
    /\ sink_op.op = "log_interaction"
    /\ sink_op.rows_before # <<>>
    /\ Len(chat_logs) = Len(sink_op.rows_before) + 1

\* row is the whole record of call: every value the caller passed is in its
\* column, and it has an id and a timestamp
CompleteRecord(row, call) ==
    /\ DOMAIN row = AllColumns
    /\ row.id \in Nat
    /\ row.timestamp # NULL
    /\ row.question = Cell(call.question)
    /\ row.response = Cell(call.response)
    /\ row.score = Cell(call.score)
    /\ row.response_type = Cell(call.response_type)

\* C19: a record write is all-or-nothing: whichever step of the write fails,
\* the table afterwards holds the complete record or no row of it, never a
\* partial row.
C19_WriteAllOrNothing ==
    sink_op.op = "log_interaction" =>
        \/ chat_logs = sink_op.rows_before
        \/ /\ Len(chat_logs) = Len(sink_op.rows_before) + 1
           /\ SubSeq(chat_logs, 1, Len(sink_op.rows_before)) = sink_op.rows_before
           /\ CompleteRecord(chat_logs[Len(chat_logs)], sink_op.call)

\* C19 witness: the commit failed on a table with all eight columns, and the
\* table holds what it held before.
C19_Witness ==
    /\ sink_op.op = "log_interaction"
    /\ sink_op.fault = "commit"
    /\ AllColumns \subseteq sink_op.columns_before
    /\ sink_op.rows_before # <<>>
    /\ chat_logs = sink_op.rows_before

\* the body tests/test_ask.py and test_chatbot.py read
ResponseFields ==
    {"question", "score", "response_type", "raw_passages", "filtered_out",
     "final_response"}

\* C20: POST /ask answers HTTP 200 with a body holding question, score,
\* response_type, raw_passages, filtered_out and final_response on each of the
\* four outcomes, and question is the question submitted.
C20_ResponseBodyFields ==
    handled > 0 =>
        /\ last.out.status = 200
        /\ ResponseFields \subseteq DOMAIN last.out.body
        /\ last.out.body.question = last.question

\* the attempt made by rewrite_answer answered with non-empty generated text
Yields(a) == a.err = "" /\ Strip(a.text) # <<>>

\* the call went as far as the HTTP attempts
Attempted ==
    /\ rewrite_out.calls > 0
    /\ rewrite_out.token
    /\ rewrite_out.passages.t = "list"

\* the raw model output the call returned from: the generated text of the
\* first attempt that yields
RawOutput ==
    IF Yields(rewrite_out.attempts[1]) THEN Strip(rewrite_out.attempts[1].text)
    ELSE Strip(rewrite_out.attempts[2].text)

\* the text after the last marker of text
AfterLastMarker(text) ==
    LET marks == {i \in DOMAIN text : text[i] = ANSWER_MARKER}
        m == CHOOSE i \in marks : \A j \in marks : j <= i
    IN  SubSeq(text, m + 1, Len(text))

\* C21: when the raw model output contains the marker "Answer:" once or more,
\* rewrite_answer returns only the text after the last marker; when it does
\* not contain the marker, rewrite_answer returns the whole generated text.
C21_TextAfterLastMarker ==
    ( /\ Attempted
      /\ Yields(rewrite_out.attempts[1]) \/ Yields(rewrite_out.attempts[2]) )
    => /\ ~rewrite_out.result.raised
       /\ rewrite_out.result.val.t = "str"
       /\ rewrite_out.result.val.v =
             IF Contains(RawOutput, ANSWER_MARKER)
             THEN Strip(AfterLastMarker(RawOutput))
             ELSE RawOutput

\* C23: rewrite_answer ends after at most two HTTP attempts: it returns the
\* text of the first attempt that yields non-empty generated text and makes no
\* further attempt, and it returns None, raising nothing, when both attempts
\* fail by HTTP error status, request error, timeout, another exception or
\* empty generated text.
C23_AtMostTwoAttempts ==
    /\ rewrite_out.result.http_calls <= 2
    /\ rewrite_out.result.raised => rewrite_out.result.http_calls = 0
    /\ Attempted =>
          LET first == rewrite_out.attempts[1]
              second == rewrite_out.attempts[2]
              result == rewrite_out.result
          IN  /\ ~result.raised
              /\ Yields(first) =>
                    /\ result.http_calls = 1
                    /\ result.val = PyStr(clean_answer(Strip(first.text)))
              /\ (~Yields(first) /\ Yields(second)) =>
                    /\ result.http_calls = 2
                    /\ result.val = PyStr(clean_answer(Strip(second.text)))
              /\ (~Yields(first) /\ ~Yields(second)) =>
                    /\ result.http_calls = 2
                    /\ result.val = None

\* C23 witness: the first attempt timed out, the second answered, and the call
\* returned the second answer's text after two attempts.
C23_Witness ==
    /\ Attempted
    /\ rewrite_out.attempts[1] = Failed("TimeoutException")
    /\ Yields(rewrite_out.attempts[2])
    /\ rewrite_out.result.http_calls = 2
    /\ rewrite_out.result.val.t = "str"

\* the requests in flight that have returned, and those among them that
\* asked question
Done == {r \in DOMAIN inflight : inflight[r].state = "done"}
DoneAsking(question) == {r \in Done : inflight[r].question = question}
RowsAsking(question) ==
    {i \in DOMAIN chat_logs : chat_logs[i].question = Cell(question)}

\* C22: however two concurrent /ask requests interleave at the awaited rewrite
\* call, each resolves to the response type and final response it gets when
\* run alone, each writes exactly one record with its own question, and
\* handling a request never modifies the loaded index or the threshold.
C22_ConcurrentRequestsIndependent ==
    /\ [](\A r \in Done :
            /\ inflight[r].out =
                  ask(inflight[r].question, inflight[r].source_nodes,
                      inflight[r].attempts)
            /\ ResponseType(inflight[r].out) \in ResponseTypes)
    /\ [](\A question \in Questions :
            Cardinality(RowsAsking(question)) = Cardinality(DoneAsking(question)))
    /\ [][inflight' # inflight => UNCHANGED <<index, SIMILARITY_THRESHOLD>>]_vars

\* how often url is in pages_data
PagesOf(url) ==
    Cardinality({i \in DOMAIN crawler.pages_data : crawler.pages_data[i].url = url})

\* the crawl_page calls that got past the checks for url, by depth
VisitsOf(url) == {e \in crawler.events : e.kind = "visit" /\ e.url = url}

\* how often fetch_page succeeded on url
SuccessesOf(url) ==
    Cardinality({i \in DOMAIN crawler.fetch_log[url] : crawler.fetch_log[url][i]})

\* this step is a call crawl_page(url, ...)
IsCallOn(url) ==
    crawler'.url_visit_count[url] = crawler.url_visit_count[url] + 1

\* this step left everything but the visit count of url as it was
OnlyCounts(url) ==
    /\ crawler'.visited_urls = crawler.visited_urls
    /\ crawler'.pages_data = crawler.pages_data
    /\ crawler'.fetch_log = crawler.fetch_log
    /\ crawler'.events = crawler.events
    /\ crawler'.stack = crawler.stack
    /\ \A other \in Urls \ {url} :
          crawler'.url_visit_count[other] = crawler.url_visit_count[other]

CrawlDone == crawler.started /\ crawler.stack = <<>>

\* C24: crawl_page terminates on every finite link graph, circular links
\* included; each URL is fetched and recorded in pages_data at most once; and
\* a call on a URL already in visited_urls only increments its visit count,
\* fetching nothing and adding no page data.
C24_CrawlTerminatesOnce ==
    /\ [](\A url \in Urls :
            /\ PagesOf(url) <= 1
            /\ SuccessesOf(url) <= 1
            /\ Cardinality(VisitsOf(url)) <= 1)
    /\ [][\A url \in Urls :
            (IsCallOn(url) /\ url \in crawler.visited_urls) => OnlyCounts(url)]_vars
    /\ <>CrawlDone

\* C24 witness: the crawl of the ring u1 -> u2 -> u3 -> u1 has ended with the
\* three pages recorded.
C24_Witness ==
    /\ CrawlDone
    /\ crawler.site = [u1 |-> {"u2"}, u2 |-> {"u3"}, u3 |-> {"u1"}]
    /\ Len(crawler.pages_data) = 3

\* C25: the depth limit is enforced: no URL is fetched, added to visited_urls
\* or added to pages_data at a depth above max_depth, and a call with depth
\* above max_depth only increments the visit count of its URL.
C25_DepthLimit ==
    /\ [](\A e \in crawler.events : e.depth <= crawler.max_depth)
    /\ [](\A i \in DOMAIN crawler.stack : crawler.stack[i].depth <= crawler.max_depth)
    /\ [][\A url \in Urls :
            (IsCallOn(url) /\ crawler'.last_call.depth > crawler.max_depth)
                => OnlyCounts(url)]_vars

\* C25 witness: the outermost call was made one level below the limit and
\* changed nothing but the visit count.
C25_Witness ==
    /\ crawler.started
    /\ crawler.last_call = [url |-> "u1", depth |-> crawler.max_depth + 1]
    /\ crawler.url_visit_count["u1"] = 1
    /\ crawler.visited_urls = {}
    /\ crawler.pages_data = <<>>
    /\ crawler.stack = <<>>

\* every fetch_page call on url failed and crawl_page gave up
GaveUpOn(url) ==
    /\ Len(crawler.fetch_log[url]) = crawler.max_retries + 1
    /\ SuccessesOf(url) = 0

\* the depth at which url was recorded
PageDepth(url) == (CHOOSE e \in crawler.events : e.kind = "page" /\ e.url = url).depth

\* C26: crawl_page calls fetch_page at most max_retries + 1 times for a URL;
\* it stops retrying at the first success and records the page exactly once;
\* when every attempt fails the URL stays in visited_urls, no page data is
\* added for it, none of its links is followed, and the crawl of the other
\* URLs goes on.
C26_BoundedRetries ==
    crawler.started =>
        /\ \A url \in Urls :
              LET log == crawler.fetch_log[url]
              IN  /\ Len(log) <= crawler.max_retries + 1
                  /\ \A i \in DOMAIN log : log[i] => i = Len(log)
                  /\ PagesOf(url) = SuccessesOf(url)
                  /\ GaveUpOn(url) =>
                        /\ url \in crawler.visited_urls
                        /\ PagesOf(url) = 0
                        /\ \A link \in Urls : <<url, link>> \notin crawler.followed
        /\ CrawlDone =>
              \A url \in Urls :
                  (PagesOf(url) = 1 /\ PageDepth(url) < crawler.max_depth)
                      => crawler.site[url] \subseteq crawler.visited_urls

\* C26 witness: every attempt on u2 failed after a retry, and the crawl went
\* on to record u3 and ended.
C26_Witness ==
    /\ CrawlDone
    /\ crawler.max_retries >= 1
    /\ GaveUpOn("u2")
    /\ "u2" \in crawler.visited_urls
    /\ PagesOf("u1") = 1
    /\ PagesOf("u3") = 1
    /\ crawler.pages_data[Len(crawler.pages_data)].url = "u3"

\* the page has a value under key that is not empty
Has(page, key) == key \in DOMAIN page /\ page[key] # None /\ page[key].v # <<>>

\* what C27 calls a problematic page
Problematic(page) ==
    \/ ~Has(page, "url")
    \/ ~url_pattern_match(page["url"].v)
    \/ ~Has(page, "title")
    \/ ~Has(page, "content")

\* C27: for every list of pages validate_crawled_data reports valid_pages +
\* problematic_pages = total_pages; it counts a page as problematic exactly
\* when its url is missing, empty or malformed, or its title or its content is
\* missing or empty; and never because its content is shorter than 100
\* characters.
C27_ValidationCounts ==
    validate_out.calls > 0 =>
        LET pages == validate_out.pages_data
            results == validate_out.results
            bad == {i \in DOMAIN pages : Problematic(pages[i])}
            short == {i \in DOMAIN pages :
                        /\ Has(pages[i], "content")
                        /\ StrLen(pages[i]["content"].v) < 100}
        IN  /\ results.total_pages = Len(pages)
            /\ results.valid_pages + results.problematic_pages = results.total_pages
            /\ results.problematic_pages = Cardinality(bad)
            /\ results.valid_pages >= Cardinality(short \ bad)
            /\ Len(results.short_content) = Cardinality(short)

\* C27 witness: of two pages, the one without url was counted problematic and
\* the one with short content valid.
C27_Witness ==
    /\ validate_out.calls > 0
    /\ Len(validate_out.pages_data) = 2
    /\ "url" \notin DOMAIN validate_out.pages_data[1]
    /\ Has(validate_out.pages_data[2], "content")
    /\ StrLen(validate_out.pages_data[2]["content"].v) < 100
    /\ validate_out.results.valid_pages = 1
    /\ validate_out.results.problematic_pages = 1
    /\ Len(validate_out.results.short_content) = 1

\* the chunks joined in order
RECURSIVE Concat(_)
Concat(chunks) == IF chunks = <<>> THEN <<>> ELSE Head(chunks) \o Concat(Tail(chunks))

\* C29: for every sentence list and max_tokens >= 1, chunk_sentences
\* terminates and returns non-empty chunks whose concatenation in order equals
\* the input: no sentence is dropped or duplicated, including around oversized
\* sentences and contact-info groups.
C29_ChunksPartitionInput ==
    /\ <>chunk_out.returned
    /\ [](chunk_out.returned =>
            /\ \A k \in DOMAIN chunk_out.result : chunk_out.result[k] # <<>>
            /\ Concat(chunk_out.result) = chunk_out.sentences)

\* C29 witness: a call returned an oversized sentence in its own chunk and a
\* contact-info group in another, with a sentence before them.
C29_Witness ==
    /\ chunk_out.returned
    /\ Len(chunk_out.result) >= 3
    /\ \E k \in DOMAIN chunk_out.result :
          /\ Len(chunk_out.result[k]) = 1
          /\ count_tokens(chunk_out.result[k][1]) > chunk_out.max_tokens
    /\ \E k \in DOMAIN chunk_out.result :
          /\ Len(chunk_out.result[k]) >= 2
          /\ is_contact_info(chunk_out.result[k])
          /\ k > 1

\* the latest request was a /debug/ask that returned a body
DebugReturned ==
    /\ handled > 0
    /\ last.out.status = 200
    /\ "final_response" \in DOMAIN last.out.body

\* C28: /ask and /debug/ask choose the same response type and final response
\* for the same question, index, threshold and rewrite outcome, and both
\* persist one interaction record on every one of the four outcomes.
C28_DebugMatchesAsk ==
    DebugReturned =>
        LET same == ask(last.question, last.source_nodes, last.attempts)
        IN  /\ last.out.body.response_type \in ResponseTypes
            /\ last.out.body.response_type = ResponseType(same)
            /\ last.out.body.final_response = FinalResponse(same)
            /\ Len(same.log_calls) = 1
            /\ Len(last.out.log_calls) = 1
            /\ last.fault = "none" => Len(chat_logs) = last.rows_before + 1

\* C30: when the HF_TOKEN credential is not configured, rewrite_answer
\* returns None without any HTTP attempt, so every request with at least one
\* retained passage resolves to direct and no request resolves to rewrite.
C30_NoTokenMeansDirect ==
    (handled > 0 /\ ~HF_API_TOKEN) =>
        LET retained == Retained(last.source_nodes)
            rewritten == rewrite_answer(HF_API_TOKEN, last.question, PyList(retained),
                                        last.attempts)
        IN  /\ ~rewritten.raised
            /\ rewritten.val = None
            /\ rewritten.http_calls = 0
            /\ (IndexLoaded /\ retained # <<>>) => ResponseType(last.out) = "direct"
            /\ ResponseType(last.out) # "rewrite"

====
